---- MODULE Spec2Model ----
(***************************************************************************)
(* Chandy-Lamport snapshot servers (chandy-lamport/server.go).             *)
(*                                                                         *)
(* Each Server holds Tokens, its outbound and inbound links, and three     *)
(* per-snapshot maps (receivedSnapshot, inReceivedMarker, snapshot).  A    *)
(* Link is a FIFO queue of SendMessageEvents.  The simulator delivers the  *)
(* head event of a link by calling HandlePacket on the destination.        *)
(*                                                                         *)
(* Go maps are modelled as functions with a finite domain: a key that is   *)
(* absent reads as the zero value (Lookup) and is not counted by len.      *)
(* Server ids are the strings "A", "B", "C"; SortedIds gives their order.  *)
(***************************************************************************)
EXTENDS Integers, Sequences, FiniteSets, TLC

VARIABLES
    Tokens,            \* Server.Tokens, per server id
    outboundLinks,     \* Server.outboundLinks: per server, the set of dest keys
    inboundLinks,      \* Server.inboundLinks: per server, the set of src keys
    events,            \* Link.events: map <<src, dest>> -> queue of events
    receivedSnapshot,  \* Server.receivedSnapshot: per server, map id -> bool
    inReceivedMarker,  \* Server.inReceivedMarker: per server, map id -> map src -> bool
    snapshot,          \* Server.snapshot: per server, map id -> SnapshotState
    chanMap,           \* sim.chanMap: per snapshot id, the records published
    notified,          \* sim.NotifySnapshotComplete calls, per server and id
    fatal,             \* "" while running, else the log.Fatalf that ended the program
    startTotal,        \* per snapshot id: {} or {tokens in the system when it was first started}
    sentAfter,         \* per link, for each token message queued on it, in order:
                       \* the snapshot ids its sender had started when it sent it
    numSends,          \* SendTokens calls made so far
    numStarts          \* StartSnapshot calls made on a server that had started the id

vars == <<Tokens, outboundLinks, inboundLinks, events, receivedSnapshot,
          inReceivedMarker, snapshot, chanMap, notified, fatal,
          startTotal, sentAfter, numSends, numStarts>>

----------------------------------------------------------------------------
(* Bounds and input sets *)

\* SendTokens calls in a run
MaxSends == 1
\* StartSnapshot calls on a server that has already started the id (Spec only)
MaxRestarts == 1

Procs == {"A", "B", "C"}
SortedIds == <<"A", "B", "C">>
SnapIds == {1, 2}
Amounts == {1, 2}

None == "none"

----------------------------------------------------------------------------
(* Go maps *)

EmptyMap == [k \in {} |-> TRUE]

Lookup(m, k, zero) == IF k \in DOMAIN m THEN m[k] ELSE zero

Put(m, k, v) == [x \in (DOMAIN m) \cup {k} |-> IF x = k THEN v ELSE m[x]]

MapLen(m) == Cardinality(DOMAIN m)

----------------------------------------------------------------------------
(* Messages, events and snapshot records *)

TokenMessage(numTokens) == [type |-> "TokenMessage", numTokens |-> numTokens]

MarkerMessage(snapshotId) == [type |-> "MarkerMessage", snapshotId |-> snapshotId]

SendMessageEvent(src, dest, message) ==
    [src |-> src, dest |-> dest, message |-> message]

SnapshotMessage(src, dest, message) ==
    [src |-> src, dest |-> dest, message |-> message]

SnapshotState(id, tokens, messages) ==
    [id |-> id, tokens |-> tokens, messages |-> messages]

----------------------------------------------------------------------------
(* The program state as one value, so that an operation that calls another *)
(* (HandlePacket -> StartSnapshot -> SendToNeighbors) composes.            *)

State ==
    [Tokens |-> Tokens, outboundLinks |-> outboundLinks,
     inboundLinks |-> inboundLinks, events |-> events,
     receivedSnapshot |-> receivedSnapshot,
     inReceivedMarker |-> inReceivedMarker, snapshot |-> snapshot,
     chanMap |-> chanMap, notified |-> notified, fatal |-> fatal]

Install(st) ==
    /\ Tokens' = st.Tokens
    /\ outboundLinks' = st.outboundLinks
    /\ inboundLinks' = st.inboundLinks
    /\ events' = st.events
    /\ receivedSnapshot' = st.receivedSnapshot
    /\ inReceivedMarker' = st.inReceivedMarker
    /\ snapshot' = st.snapshot
    /\ chanMap' = st.chanMap
    /\ notified' = st.notified
    /\ fatal' = st.fatal

NewServer(st, id, tokens) ==
    [st EXCEPT !.Tokens = Put(@, id, tokens),
               !.outboundLinks = Put(@, id, {}),
               !.inboundLinks = Put(@, id, {}),
               !.receivedSnapshot = Put(@, id, EmptyMap),
               !.inReceivedMarker = Put(@, id, EmptyMap),
               !.snapshot = Put(@, id, EmptyMap),
               !.notified = Put(@, id, [s \in SnapIds |-> 0])]

AddOutboundLink(st, server, dest) ==
    IF server = dest
    THEN st
    ELSE [st EXCEPT !.outboundLinks[server] = @ \cup {dest},
                    !.inboundLinks[dest] = @ \cup {server},
                    !.events = Put(@, <<server, dest>>, << >>)]

getSortedKeys(keys) == SelectSeq(SortedIds, LAMBDA id : id \in keys)

RECURSIVE PushAll(_, _, _, _)
PushAll(ev, server, keys, message) ==
    IF keys = << >>
    THEN ev
    ELSE PushAll([ev EXCEPT ![<<server, Head(keys)>>] =
                      Append(@, SendMessageEvent(server, Head(keys), message))],
                 server, Tail(keys), message)

\* SendToNeighbors that stops after the first outbound link
SendToNeighborsFirstOnly(st, server, message) ==
    LET keys == getSortedKeys(st.outboundLinks[server])
    IN  [st EXCEPT !.events =
            PushAll(@, server, IF keys = << >> THEN keys ELSE <<Head(keys)>>, message)]

SendToNeighbors(st, server, message) ==
    [st EXCEPT !.events =
        PushAll(@, server, getSortedKeys(st.outboundLinks[server]), message)]

\* SendTokens with the decrement moved before the check of the balance
SendTokensDecrementFirst(st, server, numTokens, dest) ==
    LET st1 == [st EXCEPT !.Tokens[server] = @ - numTokens]
    IN  IF st1.Tokens[server] < 0
        THEN [st1 EXCEPT !.fatal = "insufficient tokens"]
        ELSE IF dest \notin st1.outboundLinks[server]
             THEN [st1 EXCEPT !.fatal = "unknown dest"]
             ELSE [st1 EXCEPT !.events[<<server, dest>>] =
                       Append(@, SendMessageEvent(server, dest,
                                                  TokenMessage(numTokens)))]

\* SendTokens that forgets to update the local state
SendTokensNoDecrement(st, server, numTokens, dest) ==
    IF st.Tokens[server] < numTokens
    THEN [st EXCEPT !.fatal = "insufficient tokens"]
    ELSE IF dest \notin st.outboundLinks[server]
         THEN [st EXCEPT !.fatal = "unknown dest"]
         ELSE [st EXCEPT !.events[<<server, dest>>] =
                   Append(@, SendMessageEvent(server, dest,
                                              TokenMessage(numTokens)))]

SendTokens(st, server, numTokens, dest) ==
    IF st.Tokens[server] < numTokens
    THEN [st EXCEPT !.fatal = "insufficient tokens"]
    ELSE LET st1 == [st EXCEPT !.Tokens[server] = @ - numTokens]
         IN  IF dest \notin st1.outboundLinks[server]
             THEN [st1 EXCEPT !.fatal = "unknown dest"]
             ELSE [st1 EXCEPT !.events[<<server, dest>>] =
                       Append(@, SendMessageEvent(server, dest,
                                                  TokenMessage(numTokens)))]

\* StartSnapshot that does not set receivedSnapshot
StartSnapshotNoFlag(st, server, snapshotId) ==
    LET st1 == [st EXCEPT
                  !.inReceivedMarker[server] = Put(@, snapshotId, EmptyMap),
                  !.snapshot[server] =
                      Put(@, snapshotId,
                          SnapshotState(snapshotId,
                                        Put(EmptyMap, server, st.Tokens[server]),
                                        << >>))]
    IN  SendToNeighbors(st1, server, MarkerMessage(snapshotId))

\* StartSnapshot that sends no marker
StartSnapshotNoMarkers(st, server, snapshotId) ==
    [st EXCEPT
       !.inReceivedMarker[server] = Put(@, snapshotId, EmptyMap),
       !.receivedSnapshot[server] = Put(@, snapshotId, TRUE),
       !.snapshot[server] =
           Put(@, snapshotId,
               SnapshotState(snapshotId,
                             Put(EmptyMap, server, st.Tokens[server]), << >>))]

\* StartSnapshot that replaces the whole inReceivedMarker map of the server
StartSnapshotResetAll(st, server, snapshotId) ==
    LET st1 == [st EXCEPT
                  !.inReceivedMarker[server] =
                      [id \in (DOMAIN @) \cup {snapshotId} |-> EmptyMap],
                  !.receivedSnapshot[server] = Put(@, snapshotId, TRUE),
                  !.snapshot[server] =
                      Put(@, snapshotId,
                          SnapshotState(snapshotId,
                                        Put(EmptyMap, server, st.Tokens[server]),
                                        << >>))]
    IN  SendToNeighbors(st1, server, MarkerMessage(snapshotId))

StartSnapshot(st, server, snapshotId) ==
    LET st1 == [st EXCEPT
                  !.inReceivedMarker[server] = Put(@, snapshotId, EmptyMap),
                  !.receivedSnapshot[server] = Put(@, snapshotId, TRUE),
                  !.snapshot[server] =
                      Put(@, snapshotId,
                          SnapshotState(snapshotId,
                                        Put(EmptyMap, server, st.Tokens[server]),
                                        << >>))]
    IN  SendToNeighbors(st1, server, MarkerMessage(snapshotId))

\* HandleMarker that does not record the peer the marker came from
HandleMarkerNoRecord(st, server, src, snapshotId) ==
    IF ~Lookup(st.receivedSnapshot[server], snapshotId, FALSE)
    THEN StartSnapshot(st, server, snapshotId)
    ELSE st

\* HandleMarker without the test of receivedSnapshot: every marker starts the
\* snapshot
HandleMarkerAlwaysStart(st, server, src, snapshotId) ==
    LET st1 == StartSnapshot(st, server, snapshotId)
        st2 == [st1 EXCEPT !.inReceivedMarker[server][snapshotId] =
                               Put(@, src, TRUE)]
        seen2 == st2.inReceivedMarker[server][snapshotId]
    IN  IF MapLen(seen2) = Cardinality(st2.inboundLinks[server])
        THEN [st2 EXCEPT !.chanMap[snapshotId] =
                             Append(@, st2.snapshot[server][snapshotId]),
                         !.notified[server][snapshotId] = @ + 1]
        ELSE st2

\* HandleMarker without the test that every inbound link delivered its marker
HandleMarkerAlwaysNotify(st, server, src, snapshotId) ==
    LET st1 == IF ~Lookup(st.receivedSnapshot[server], snapshotId, FALSE)
               THEN StartSnapshot(st, server, snapshotId)
               ELSE st
        st2 == [st1 EXCEPT !.inReceivedMarker[server][snapshotId] =
                               Put(@, src, TRUE)]
    IN  [st2 EXCEPT !.chanMap[snapshotId] =
                        Append(@, st2.snapshot[server][snapshotId]),
                    !.notified[server][snapshotId] = @ + 1]

HandleMarker(st, server, src, snapshotId) ==
    LET st1 == IF ~Lookup(st.receivedSnapshot[server], snapshotId, FALSE)
               THEN StartSnapshot(st, server, snapshotId)
               ELSE st
        seen1 == Lookup(st1.inReceivedMarker[server], snapshotId, EmptyMap)
        st2 == IF ~Lookup(seen1, src, FALSE)
               THEN IF snapshotId \in DOMAIN st1.inReceivedMarker[server]
                    THEN [st1 EXCEPT !.inReceivedMarker[server][snapshotId] =
                                          Put(@, src, TRUE)]
                    ELSE [st1 EXCEPT !.fatal = "panic: assignment to entry in nil map"]
               ELSE st1
        seen2 == Lookup(st2.inReceivedMarker[server], snapshotId, EmptyMap)
    IN  IF st2.fatal = "" /\ MapLen(seen2) = Cardinality(st2.inboundLinks[server])
        THEN [st2 EXCEPT !.chanMap[snapshotId] =
                             Append(@, Lookup(st2.snapshot[server], snapshotId, None)),
                         !.notified[server][snapshotId] = @ + 1]
        ELSE st2

\* the capture test without the check of the marker of the sender
CapturesIgnoringMarker(st, server, src, snapshotId) ==
    Lookup(st.receivedSnapshot[server], snapshotId, FALSE)

Captures(st, server, src, snapshotId) ==
    /\ Lookup(st.receivedSnapshot[server], snapshotId, FALSE)
    /\ ~Lookup(Lookup(st.inReceivedMarker[server], snapshotId, EmptyMap), src, FALSE)

\* HandleToken that also adds the tokens to the counts stored in the records
HandleTokenIntoRecords(st, server, src, message) ==
    [st EXCEPT
        !.snapshot[server] =
            [snapshotId \in DOMAIN @ |->
                LET r == IF Captures(st, server, src, snapshotId)
                         THEN [@[snapshotId] EXCEPT !.messages =
                                  Append(@, SnapshotMessage(src, server, message))]
                         ELSE @[snapshotId]
                IN  [r EXCEPT !.tokens[server] = @ + message.numTokens]],
        !.Tokens[server] = @ + message.numTokens]

\* HandleToken that leaves the loop after the first snapshot that captures
HandleTokenFirstOnly(st, server, src, message) ==
    LET ids == {id \in DOMAIN st.snapshot[server] :
                   Captures(st, server, src, id)}
        first == IF ids = {} THEN 0
                 ELSE CHOOSE id \in ids : \A other \in ids : id <= other
    IN  [st EXCEPT
           !.snapshot[server] =
               [snapshotId \in DOMAIN @ |->
                   IF snapshotId \in ids /\ snapshotId = first
                   THEN [@[snapshotId] EXCEPT !.messages =
                            Append(@, SnapshotMessage(src, server, message))]
                   ELSE @[snapshotId]],
           !.Tokens[server] = @ + message.numTokens]

HandleToken(st, server, src, message) ==
    IF \E snapshotId \in DOMAIN st.receivedSnapshot[server] :
           /\ Captures(st, server, src, snapshotId)
           /\ snapshotId \notin DOMAIN st.snapshot[server]
    THEN [st EXCEPT !.fatal = "panic: nil pointer dereference"]
    ELSE [st EXCEPT
            !.snapshot[server] =
                [snapshotId \in DOMAIN @ |->
                    IF Captures(st, server, src, snapshotId)
                    THEN [@[snapshotId] EXCEPT !.messages =
                             Append(@, SnapshotMessage(src, server, message))]
                    ELSE @[snapshotId]],
            !.Tokens[server] = @ + message.numTokens]

HandlePacket(st, server, src, message) ==
    IF message.type = "MarkerMessage"
    THEN HandleMarker(st, server, src, message.snapshotId)
    ELSE HandleToken(st, server, src, message)

----------------------------------------------------------------------------
(* Construction: NewServer for each id, then AddOutboundLink per link. *)

Blank ==
    [Tokens |-> EmptyMap, outboundLinks |-> EmptyMap, inboundLinks |-> EmptyMap,
     events |-> EmptyMap, receivedSnapshot |-> EmptyMap,
     inReceivedMarker |-> EmptyMap, snapshot |-> EmptyMap,
     chanMap |-> [s \in SnapIds |-> << >>], notified |-> EmptyMap, fatal |-> ""]

RECURSIVE NewServers(_, _, _)
NewServers(st, ids, tokens) ==
    IF ids = << >>
    THEN st
    ELSE NewServers(NewServer(st, Head(ids), tokens[Head(ids)]), Tail(ids), tokens)

RECURSIVE AddLinks(_, _)
AddLinks(st, links) ==
    IF links = << >>
    THEN st
    ELSE AddLinks(AddOutboundLink(st, Head(links)[1], Head(links)[2]), Tail(links))

Build(tokens, links) == AddLinks(NewServers(Blank, SortedIds, tokens), links)

\* A -> B -> C -> A
Ring == << <<"A", "B">>, <<"B", "C">>, <<"C", "A">> >>
\* A <-> B and B <-> C; the self link of A is ignored
Line == << <<"A", "A">>, <<"A", "B">>, <<"B", "A">>, <<"B", "C">>, <<"C", "B">> >>
\* A <-> B, B -> C: C has no outbound link
Tail3 == << <<"A", "B">>, <<"B", "A">>, <<"B", "C">> >>
\* A -> B -> C: A has no inbound link
Chain == << <<"A", "B">>, <<"B", "C">> >>

Topologies == {Ring, Line, Tail3, Chain}

InitTokens == [A |-> 2, B |-> 1, C |-> 0]

SumOver(f, S) ==
    LET RECURSIVE Sum(_)
        Sum(T) == IF T = {} THEN 0
                  ELSE LET x == CHOOSE y \in T : TRUE IN f[x] + Sum(T \ {x})
    IN  Sum(S)

RECURSIVE QueueTokens(_)
QueueTokens(q) ==
    IF q = << >> THEN 0
    ELSE (IF Head(q).message.type = "TokenMessage"
          THEN Head(q).message.numTokens ELSE 0) + QueueTokens(Tail(q))

\* tokens held by the servers plus tokens in flight on the links
TotalInSystem(st) ==
    SumOver(st.Tokens, DOMAIN st.Tokens)
    + SumOver([l \in DOMAIN st.events |-> QueueTokens(st.events[l])],
              DOMAIN st.events)

Started(st, server, snapshotId) ==
    Lookup(st.receivedSnapshot[server], snapshotId, FALSE)

InitWith(tokens, links) ==
    LET st == Build(tokens, links)
    IN  /\ Tokens = st.Tokens
        /\ outboundLinks = st.outboundLinks
        /\ inboundLinks = st.inboundLinks
        /\ events = st.events
        /\ receivedSnapshot = st.receivedSnapshot
        /\ inReceivedMarker = st.inReceivedMarker
        /\ snapshot = st.snapshot
        /\ chanMap = st.chanMap
        /\ notified = st.notified
        /\ fatal = st.fatal
        /\ startTotal = [s \in SnapIds |-> {}]
        /\ sentAfter = [l \in Procs \X Procs |-> << >>]
        /\ numSends = 0
        /\ numStarts = 0

Init == \E links \in Topologies : InitWith(InitTokens, links)

----------------------------------------------------------------------------
(* Steps.  The program runs until a log.Fatalf ends it. *)

\* a call of server.SendTokens(numTokens, dest)
SendTokensOp(server, numTokens, dest) ==
    /\ fatal = ""
    /\ numSends < MaxSends
    /\ Install(SendTokens(State, server, numTokens, dest))
    /\ sentAfter' = IF SendTokens(State, server, numTokens, dest).fatal = ""
                    THEN [sentAfter EXCEPT ![<<server, dest>>] =
                             Append(@, {s \in SnapIds : Started(State, server, s)})]
                    ELSE sentAfter
    /\ numSends' = numSends + 1
    /\ UNCHANGED <<startTotal, numStarts>>

\* a call of server.StartSnapshot(snapshotId) from outside the servers
StartSnapshotOp(server, snapshotId) ==
    /\ fatal = ""
    /\ Started(State, server, snapshotId) => numStarts < MaxRestarts
    /\ Install(StartSnapshot(State, server, snapshotId))
    /\ startTotal' = IF \A q \in Procs : ~Started(State, q, snapshotId)
                     THEN [startTotal EXCEPT ![snapshotId] = {TotalInSystem(State)}]
                     ELSE startTotal
    /\ numStarts' = IF Started(State, server, snapshotId)
                    THEN numStarts + 1 ELSE numStarts
    /\ UNCHANGED <<sentAfter, numSends>>

\* the simulator pops the head event of link src -> dest and hands it to dest
Deliver(src, dest) ==
    /\ fatal = ""
    /\ <<src, dest>> \in DOMAIN events
    /\ events[<<src, dest>>] # << >>
    /\ LET e == Head(events[<<src, dest>>])
           st0 == [State EXCEPT !.events[<<src, dest>>] = Tail(@)]
       IN  /\ Install(HandlePacket(st0, e.dest, e.src, e.message))
           /\ sentAfter' = IF e.message.type = "TokenMessage"
                           THEN [sentAfter EXCEPT ![<<src, dest>>] = Tail(@)]
                           ELSE sentAfter
    /\ UNCHANGED <<startTotal, numSends, numStarts>>

Next ==
    \/ \E server \in Procs, numTokens \in Amounts, dest \in Procs :
           SendTokensOp(server, numTokens, dest)
    \/ \E server \in Procs, snapshotId \in SnapIds :
           StartSnapshotOp(server, snapshotId)
    \/ \E src \in Procs, dest \in Procs : Deliver(src, dest)

\* any caller: StartSnapshot may be called again on a server that started the id
InitAny == \E links \in {Ring, Tail3} : InitWith(InitTokens, links)

Spec == InitAny /\ [][Next]_vars

\* StartSnapshot "should be called only once per server": the caller starts an
\* id only on a server that has not started it
StartOnceOp(server, snapshotId) ==
    /\ ~Started(State, server, snapshotId)
    /\ StartSnapshotOp(server, snapshotId)

NextOnce ==
    \/ \E server \in Procs, numTokens \in Amounts, dest \in Procs :
           SendTokensOp(server, numTokens, dest)
    \/ \E server \in Procs, snapshotId \in SnapIds :
           StartOnceOp(server, snapshotId)
    \/ \E src \in Procs, dest \in Procs : Deliver(src, dest)

SpecOnce == Init /\ [][NextOnce]_vars

\* one snapshot id, started from outside on servers that have not started it,
\* and the simulator delivers the head event of every link eventually
NextLive ==
    \/ \E server \in Procs, numTokens \in Amounts, dest \in Procs :
           SendTokensOp(server, numTokens, dest)
    \/ \E server \in Procs : StartOnceOp(server, 1)
    \/ \E src \in Procs, dest \in Procs : Deliver(src, dest)

FairOnce ==
    /\ Init
    /\ [][NextLive]_vars
    /\ \A src \in Procs, dest \in Procs : WF_vars(Deliver(src, dest))

\* The ring scenario: A -> B -> C -> A with 10, 0, 0 tokens; A sends 4 tokens
\* to B and then starts snapshot 1.  Events are delivered in any order, and a
\* second snapshot id may be started on any server at any time.
RingTokens == [A |-> 10, B |-> 0, C |-> 0]

InitRing == InitWith(RingTokens, Ring)

RingSend == numSends = 0 /\ SendTokensOp("A", 4, "B")

RingStart == numSends >= 1 /\ StartOnceOp("A", 1)

NextRing ==
    \/ RingSend
    \/ RingStart
    \/ \E server \in Procs : StartOnceOp(server, 2)
    \/ \E src \in Procs, dest \in Procs : Deliver(src, dest)

SpecRing == InitRing /\ [][NextRing]_vars

----------------------------------------------------------------------------
(* What the claims speak of *)

Seen(server, snapshotId) ==
    DOMAIN Lookup(inReceivedMarker[server], snapshotId, EmptyMap)

SomeStarted(snapshotId) == \E p \in Procs : Started(State, p, snapshotId)

AllNotified(snapshotId) == \A p \in Procs : notified[p][snapshotId] >= 1

RECURSIVE CapturedTokens(_)
CapturedTokens(messages) ==
    IF messages = << >> THEN 0
    ELSE Head(messages).message.numTokens + CapturedTokens(Tail(messages))

\* the stored token count of a record plus the amounts it captured
RecordTotal(server, snapshotId) ==
    LET r == snapshot[server][snapshotId]
    IN  r.tokens[server] + CapturedTokens(r.messages)

SumRecords(snapshotId) ==
    SumOver([p \in Procs |-> RecordTotal(p, snapshotId)], Procs)

\* the head of link src -> dest is the given message
HeadIs(src, dest, message) ==
    /\ <<src, dest>> \in DOMAIN events
    /\ events[<<src, dest>>] # << >>
    /\ Head(events[<<src, dest>>]).message = message

----------------------------------------------------------------------------
(* C1: conservation.  Once every server has reported completion of a       *)
(* snapshot id, the stored token counts of the records of that id plus the *)
(* amounts of the messages they captured add up to the tokens that were in *)
(* the system (held plus in flight) when the id was first started.         *)
C1_Conservation ==
    \A s \in SnapIds : AllNotified(s) => startTotal[s] = {SumRecords(s)}

\* every server completed snapshot 1 and a record captured a message in flight
C1_Witness ==
    /\ AllNotified(1)
    /\ \E p \in Procs : snapshot[p][1].messages # << >>

(* C2: capture rule.  A token message delivered to dest from src is        *)
(* appended, once, to the record of exactly those snapshot ids that dest   *)
(* has started and whose marker from src has not arrived; every other      *)
(* record is left as it was and no record is created.                      *)
C2_CaptureRule ==
    [][\A src \in Procs, dest \in Procs, n \in Amounts :
          (HeadIs(src, dest, TokenMessage(n)) /\ Deliver(src, dest)) =>
              /\ DOMAIN snapshot'[dest] = DOMAIN snapshot[dest]
              /\ \A s \in SnapIds :
                    LET qualifies == /\ Started(State, dest, s)
                                     /\ src \notin Seen(dest, s)
                    IN  /\ qualifies => s \in DOMAIN snapshot[dest]
                        /\ s \in DOMAIN snapshot[dest] =>
                              snapshot'[dest][s].messages =
                                  IF qualifies
                                  THEN Append(snapshot[dest][s].messages,
                                              SnapshotMessage(src, dest,
                                                              TokenMessage(n)))
                                  ELSE snapshot[dest][s].messages]_vars

\* a server holds two records of which one captured a message the other did not
C2_Witness ==
    \E p \in Procs :
        /\ DOMAIN snapshot[p] = {1, 2}
        /\ Len(snapshot[p][1].messages) # Len(snapshot[p][2].messages)

(* C3: completion fires once.  A server reports completion of a snapshot   *)
(* id at most once; it has reported it exactly when it has received the    *)
(* marker of the id on every one of its inbound links; and at the step     *)
(* that reports, the markers seen are the full set of inbound links and    *)
(* the record is published once.                                           *)
C3_Once ==
    \A p \in Procs, s \in SnapIds :
        /\ notified[p][s] <= 1
        /\ notified[p][s] =
              Len(SelectSeq(chanMap[s], LAMBDA r : DOMAIN r.tokens = {p}))
        /\ notified[p][s] = 1 <=>
              /\ Started(State, p, s)
              /\ inboundLinks[p] # {}
              /\ Seen(p, s) = inboundLinks[p]

C3_AtCompletion ==
    \A p \in Procs, s \in SnapIds :
        notified'[p][s] # notified[p][s] =>
            /\ notified'[p][s] = notified[p][s] + 1
            /\ DOMAIN inReceivedMarker'[p][s] = inboundLinks'[p]
            /\ chanMap'[s] = Append(chanMap[s], snapshot'[p][s])

C4_IdempotentStart ==
    [][\A p \in Procs, s \in SnapIds :
          (Started(State, p, s) /\ StartSnapshotOp(p, s)) =>
              /\ snapshot'[p][s] = snapshot[p][s]
              /\ inReceivedMarker'[p][s] = inReceivedMarker[p][s]
              /\ Tokens' = Tokens
              /\ events' = events]_vars

\* the servers a marker sent by the given servers can reach
RECURSIVE ReachFrom(_, _)
ReachFrom(S, n) ==
    IF n = 0 THEN S
    ELSE ReachFrom(S \cup UNION {outboundLinks[q] : q \in S}, n - 1)

Reachable(p) == ReachFrom({p}, Cardinality(Procs))

StronglyConnected == \A p \in Procs : Reachable(p) = Procs

\* the servers that have a link
Connected == {p \in Procs : outboundLinks[p] \cup inboundLinks[p] # {}}

Quiescent == \A l \in DOMAIN events : events[l] = << >>

Completed(p, s) == Started(State, p, s) /\ notified[p][s] >= 1

(* C5 as claimed: once an id is started on any server, every server with a *)
(* link starts it and reports its completion.  Stated for the states in    *)
(* which no event is queued: nothing more will be delivered there, so what *)
(* fair delivery was to bring about must already be the case.              *)
C5_EveryConnectedCompletes ==
    \A s \in SnapIds :
        (fatal = "" /\ SomeStarted(s) /\ Quiescent) =>
            \A p \in Connected : Completed(p, s)

\* every server that a marker of the id can reach has started the id
ReachableStarted(s) ==
    \A p \in Procs : \A q \in Reachable(p) :
        Started(State, p, s) => Started(State, q, s)

(* C5 as amended: under fair delivery, once an id is started on a server,  *)
(* every server that can be reached along the links from a server that     *)
(* started the id eventually starts it, and when every server can be       *)
(* reached from every other, every server eventually reports completion of *)
(* the id (unless a fatal error ends the program: nothing is delivered     *)
(* after it).                                                              *)
C5_Liveness ==
    SomeStarted(1) ~>
        \/ fatal # ""
        \/ /\ ReachableStarted(1)
           /\ StronglyConnected => \A p \in Procs : Completed(p, 1)

\* in a strongly connected topology every server completed an id that one
\* server started from outside
C5_Witness ==
    /\ StronglyConnected
    /\ fatal = ""
    /\ \A p \in Procs : Completed(p, 1)
    /\ Cardinality({p \in Procs : DOMAIN inReceivedMarker[p][1] = inboundLinks[p]}) = 3

\* the entry of a Go map as a set: empty when the key is absent
Entry(m, k) == IF k \in DOMAIN m THEN {m[k]} ELSE {}

\* the step starts the id on the server from outside, or hands the server a
\* marker of the id
StartsOrMarks(p, s) ==
    \/ StartSnapshotOp(p, s)
    \/ \E src \in Procs : HeadIs(src, p, MarkerMessage(s)) /\ Deliver(src, p)

\* the step leaves what the server holds for the id, and its Tokens, unchanged
KeepsId(p, s) ==
    /\ Entry(receivedSnapshot'[p], s) = Entry(receivedSnapshot[p], s)
    /\ Entry(inReceivedMarker'[p], s) = Entry(inReceivedMarker[p], s)
    /\ Entry(snapshot'[p], s) = Entry(snapshot[p], s)
    /\ Tokens'[p] = Tokens[p]

\* a step that does not keep s1 on a server neither starts nor marks s2 there
C6_Frame ==
    \A p \in Procs, s1 \in SnapIds, s2 \in SnapIds :
        s1 # s2 => (KeepsId(p, s1) \/ ~StartsOrMarks(p, s2))

C6_BothConserve ==
    (AllNotified(1) /\ AllNotified(2)) =>
        /\ startTotal[1] = {SumRecords(1)}
        /\ startTotal[2] = {SumRecords(2)}

(* C6: concurrent snapshot ids are independent.  Starting an id or handling *)
(* a marker of an id on a server leaves the started flag, the markers seen  *)
(* and the record of every other id, and the Tokens of the server, as they  *)
(* were; and when two ids have run interleaved to completion, the records   *)
(* of each id satisfy conservation.                                         *)
C6_Independent == [][C6_Frame]_vars /\ [] C6_BothConserve

\* both ids completed on every server, with different cuts on some server
C6_Witness ==
    /\ AllNotified(1) /\ AllNotified(2)
    /\ \E p \in Procs : snapshot[p][1].tokens # snapshot[p][2].tokens

\* the record of B for snapshot 1 captured the message of 4 tokens from A
RingCaptured ==
    \E i \in 1..Len(snapshot["B"][1].messages) :
        snapshot["B"][1].messages[i] = SnapshotMessage("A", "B", TokenMessage(4))

\* the token count stored by B for snapshot 1 includes the 4 tokens
RingIncluded == snapshot["B"][1].tokens["B"] = 4

(* C7: ring scenario.  The record of A for snapshot 1 stores 6 tokens; and *)
(* when A, B and C have completed snapshot 1, either the record of B       *)
(* captured the message of 4 tokens or the count stored by B includes the  *)
(* 4 tokens, not both and not neither, and the stored counts plus the      *)
(* captured amounts are 10.                                                *)
C7_Ring ==
    /\ Started(State, "A", 1) => snapshot["A"][1].tokens["A"] = 6
    /\ AllNotified(1) =>
          /\ RingCaptured # RingIncluded
          /\ SumRecords(1) = 10

\* the three servers completed snapshot 1 of the scenario
C7_Witness ==
    /\ AllNotified(1)
    /\ snapshot["A"][1].tokens["A"] = 6
    /\ RingIncluded

(* C8: duplicate marker absorbed.  A marker of an id delivered from a peer *)
(* whose marker of that id the server has already recorded changes neither *)
(* the markers seen, the records nor Tokens, pushes no marker, and adds no *)
(* completion notification and no published record.                        *)
C8_DuplicateMarkerAbsorbed ==
    [][\A src \in Procs, p \in Procs, s \in SnapIds :
          (/\ HeadIs(src, p, MarkerMessage(s))
           /\ src \in Seen(p, s)
           /\ Deliver(src, p)) =>
              /\ inReceivedMarker' = inReceivedMarker
              /\ snapshot' = snapshot
              /\ Tokens' = Tokens
              /\ \A l \in DOMAIN events : l # <<src, p>> => events'[l] = events[l]
              /\ notified' = notified
              /\ chanMap' = chanMap]_vars

(* C9: SendTokens of more tokens than the server holds ends in the fatal   *)
(* error, with Tokens unchanged and nothing pushed onto any link.          *)
C9_InsufficientTokensFatal ==
    [][\A p \in Procs, n \in Amounts, d \in Procs :
          (Tokens[p] < n /\ SendTokensOp(p, n, d)) =>
              /\ fatal' = "insufficient tokens"
              /\ Tokens' = Tokens
              /\ events' = events]_vars

\* a SendTokens call ended in the fatal error for the balance
C9_Witness == fatal = "insufficient tokens" /\ numSends = 1

(* C10: on every server and for every snapshot id, the started flag is set *)
(* exactly when a record of the id exists and exactly when a markers-seen  *)
(* set of the id exists.                                                   *)
C10_StartedIffRecord ==
    \A p \in Procs, s \in SnapIds :
        /\ Started(State, p, s) <=> s \in DOMAIN snapshot[p]
        /\ Started(State, p, s) <=> s \in DOMAIN inReceivedMarker[p]

\* a server that started one id and not the other
C10_Witness ==
    \E p \in Procs :
        /\ Started(State, p, 1) /\ 1 \in DOMAIN snapshot[p]
        /\ ~Started(State, p, 2) /\ 2 \notin DOMAIN snapshot[p]

----------------------------------------------------------------------------
(* Topology construction while events are pending. *)

\* a call of server.AddOutboundLink(dest); the link it installs has a new,
\* empty queue, so the history of the old queue goes with it
AddLinkOp(server, dest) ==
    /\ fatal = ""
    /\ Install(AddOutboundLink(State, server, dest))
    /\ sentAfter' = IF server = dest THEN sentAfter
                    ELSE [sentAfter EXCEPT ![<<server, dest>>] = << >>]
    /\ UNCHANGED <<startTotal, numSends, numStarts>>

\* links may be added, and added again, at any time between A and B
LinkEnds == {"A", "B"}

NextLinks ==
    \/ \E server \in LinkEnds, dest \in LinkEnds : AddLinkOp(server, dest)
    \/ \E server \in Procs, numTokens \in Amounts, dest \in Procs :
           SendTokensOp(server, numTokens, dest)
    \/ \E server \in Procs : StartOnceOp(server, 1)
    \/ \E src \in Procs, dest \in Procs : Deliver(src, dest)

InitLinks == InitWith(InitTokens, Chain)

SpecLinks == InitLinks /\ [][NextLinks]_vars

(* C11: AddOutboundLink from a server to itself changes nothing, and       *)
(* AddOutboundLink for a link that already exists leaves the source's      *)
(* outbound links, the destination's inbound links and the events pending  *)
(* on the link as they were.                                               *)
C11_AddLinkIdempotent ==
    [][\A server \in LinkEnds, dest \in LinkEnds :
          (/\ server = dest \/ dest \in outboundLinks[server]
           /\ AddLinkOp(server, dest)) =>
              /\ outboundLinks' = outboundLinks
              /\ inboundLinks' = inboundLinks
              /\ events' = events]_vars

----------------------------------------------------------------------------
(* SendTokens takes an int: the amounts a caller may pass include negative *)
(* ones.                                                                   *)
IntAmounts == Amounts \cup {-1}

NextInt ==
    \/ \E server \in Procs, numTokens \in IntAmounts, dest \in Procs :
           SendTokensOp(server, numTokens, dest)
    \/ \E server \in Procs, snapshotId \in SnapIds :
           StartOnceOp(server, snapshotId)
    \/ \E src \in Procs, dest \in Procs : Deliver(src, dest)

SpecInt == Init /\ [][NextInt]_vars

(* C12: while no SendTokens call has hit a fatal error, every server's     *)
(* Tokens is at least 0, whatever amounts the balance check lets through.  *)
C12_TokensNonNegative ==
    fatal = "" => \A p \in Procs : Tokens[p] >= 0

----------------------------------------------------------------------------
(* C13: consistent cut.  When a token message that its sender sent after   *)
(* starting snapshot s is delivered, the receiver has already got the      *)
(* sender's marker of s, and the delivery leaves the receiver's record of  *)
(* s (captured messages and stored count) as it was.                       *)
C13_ConsistentCut ==
    [][\A src \in Procs, p \in Procs, s \in SnapIds :
          \/ /\ src \in Seen(p, s)
             /\ Entry(snapshot'[p], s) = Entry(snapshot[p], s)
          \/ <<src, p>> \notin DOMAIN events
          \/ events[<<src, p>>] = << >>
          \/ Head(events[<<src, p>>]).message.type # "TokenMessage"
          \/ s \notin Head(sentAfter[<<src, p>>])
          \/ ~Deliver(src, p)]_vars

\* a token message sent after its sender started snapshot 1 waits on a link
\* whose receiver has got the sender's marker of snapshot 1
C13_Witness ==
    \E src \in Procs, p \in Procs :
        /\ <<src, p>> \in DOMAIN events
        /\ events[<<src, p>>] # << >>
        /\ Head(events[<<src, p>>]).message.type = "TokenMessage"
        /\ 1 \in Head(sentAfter[<<src, p>>])
        /\ src \in Seen(p, 1)

----------------------------------------------------------------------------
\* the token count stored in the server's record of the id: {} when there is
\* no record, else the one count
StoredCount(snap, server, snapshotId) ==
    IF snapshotId \in DOMAIN snap[server]
    THEN {Lookup(snap[server][snapshotId].tokens, server, None)}
    ELSE {}

(* C14: local cut.  The step in which a server starts snapshot s stores   *)
(* in its record of s the Tokens the server holds at that step (the step   *)
(* itself leaves Tokens alone), and every later step, whatever it sends or *)
(* delivers, leaves the stored count the same.                             *)
C14_LocalCut ==
    [][\A p \in Procs, s \in SnapIds :
          /\ (~Started(State, p, s) /\ s \in DOMAIN snapshot'[p]) =>
                 /\ StoredCount(snapshot', p, s) = {Tokens[p]}
                 /\ Tokens'[p] = Tokens[p]
          /\ Started(State, p, s) =>
                 StoredCount(snapshot', p, s) = StoredCount(snapshot, p, s)]_vars

\* a server holds a record whose stored count differs from its Tokens now
C14_Witness ==
    \E p \in Procs, s \in SnapIds :
        /\ Started(State, p, s)
        /\ StoredCount(snapshot, p, s) # {Tokens[p]}
        /\ StoredCount(snapshot, p, s) # {}

----------------------------------------------------------------------------
\* how many events of the queue carry the message
RECURSIVE CountOf(_, _)
CountOf(q, message) ==
    IF q = << >> THEN 0
    ELSE (IF Head(q).message = message THEN 1 ELSE 0) + CountOf(Tail(q), message)

\* the queue after one event with the message from src to dest joined its tail
WithAtTail(q, src, dest, message) ==
    Append(q, SendMessageEvent(src, dest, message))

(* C15: marker propagation.  When a marker of snapshot s from peer src is  *)
(* delivered to a server p that has not started s, the same step starts s  *)
(* on p, creates p's record of s with p's Tokens and no captured message,  *)
(* puts exactly one marker of s at the tail of every outbound link of p    *)
(* and on no other link, and records src among the peers whose marker of s *)
(* arrived, so that the capture test fails for src from then on.           *)
C15_MarkerPropagation ==
    [][\A src \in Procs, p \in Procs, s \in SnapIds :
          (/\ HeadIs(src, p, MarkerMessage(s))
           /\ ~Started(State, p, s)
           /\ Deliver(src, p)) =>
              /\ Started(State', p, s)
              /\ Entry(snapshot'[p], s) =
                     {SnapshotState(s, [k \in {p} |-> Tokens[p]], << >>)}
              /\ \A l \in DOMAIN events :
                     LET q == IF l = <<src, p>> THEN Tail(events[l]) ELSE events[l]
                     IN  events'[l] = IF l[1] = p
                                      THEN WithAtTail(q, p, l[2], MarkerMessage(s))
                                      ELSE q
              /\ \A d \in outboundLinks[p] :
                     CountOf(events'[<<p, d>>], MarkerMessage(s)) = 1
              /\ src \in Seen(p, s)'
              /\ ~Captures(State', p, src, s)]_vars

\* a server that started snapshot 1 on a marker: its marker is on an outbound
\* link and it started nothing from outside
C15_Witness ==
    \E src \in Procs, p \in Procs, d \in Procs :
        /\ src \in Seen(p, 1)
        /\ d \in outboundLinks[p]
        /\ CountOf(events[<<p, d>>], MarkerMessage(1)) = 1
        /\ \A q \in Procs \ {src} : ~Started(State, q, 2)
        /\ Started(State, src, 1)
        /\ \A q \in Procs \ {src, p} : ~Started(State, q, 1)

----------------------------------------------------------------------------
(* C16: record frozen after completion.  Once a server has reported        *)
(* completion of snapshot s, no delivery to it, of a token message or of a *)
(* marker of any id, changes its record of s.                              *)
C16_FrozenAfterCompletion ==
    [][\A p \in Procs, s \in SnapIds :
          \/ Entry(snapshot'[p], s) = Entry(snapshot[p], s)
          \/ notified[p][s] = 0
          \/ \A src \in Procs : ~Deliver(src, p)]_vars

\* a server has reported completion of snapshot 1 and a token message waits
\* on one of its inbound links
C16_Witness ==
    \E src \in Procs, p \in Procs :
        /\ notified[p][1] >= 1
        /\ <<src, p>> \in DOMAIN events
        /\ events[<<src, p>>] # << >>
        /\ Head(events[<<src, p>>]).message.type = "TokenMessage"

----------------------------------------------------------------------------
(* C17: a server without inbound links that has started snapshot s reports *)
(* completion of s, at the latest once every queued event is delivered,    *)
(* unless a fatal error ends the program first.                            *)
C17_ZeroInboundCompletes ==
    \A p \in Procs :
        (Started(State, p, 1) /\ inboundLinks[p] = {})
            ~> (notified[p][1] >= 1 \/ fatal # "")

----------------------------------------------------------------------------
(* C18: SendTokens of an amount the server holds to a dest that is not one *)
(* of its outbound links ends in the fatal error, pushes no event onto any *)
(* link and leaves the caller's Tokens at its value before the call.       *)
C18_UnknownDestFatal ==
    [][\A p \in Procs, n \in Amounts, d \in Procs :
          (/\ Tokens[p] >= n
           /\ d \notin outboundLinks[p]
           /\ SendTokensOp(p, n, d)) =>
              /\ fatal' = "unknown dest"
              /\ events' = events
              /\ Tokens'[p] = Tokens[p]]_vars

----------------------------------------------------------------------------
(* C19: token conservation in flight.  While no call has hit a fatal       *)
(* error, the Tokens of all servers plus the numTokens of all token        *)
(* messages queued on all links add up to the initial Tokens.              *)
C19_ConservedInFlight ==
    fatal = "" => TotalInSystem(State) = SumOver(InitTokens, Procs)

\* a successful SendTokens: tokens left the sender and wait on a link
C19_Witness ==
    /\ fatal = ""
    /\ numSends = 1
    /\ \E l \in DOMAIN events : QueueTokens(events[l]) > 0
    /\ SumOver(Tokens, Procs) < SumOver(InitTokens, Procs)

----------------------------------------------------------------------------
\* markers of the id that the link has carried or carries: the ones queued on
\* it, and one more when its receiver has recorded the sender's marker
MarkersOn(src, dest, snapshotId) ==
    CountOf(events[<<src, dest>>], MarkerMessage(snapshotId))
    + (IF src \in Seen(dest, snapshotId) THEN 1 ELSE 0)

\* no step pushes a marker of the id onto an outbound link of the server
PushesNoMarker(p, s) ==
    \A d \in outboundLinks[p] :
        CountOf(events'[<<p, d>>], MarkerMessage(s))
            <= CountOf(events[<<p, d>>], MarkerMessage(s))

(* C20: when StartSnapshot is called from outside only on servers that     *)
(* have not started the id, a server that has started snapshot s never     *)
(* starts it again: it stays started, the peers whose marker arrived are   *)
(* never forgotten and it pushes no further marker of s; so every link     *)
(* carries at most one marker of s, queued or delivered.                   *)
C20_StartsOnce ==
    /\ [](\A l \in DOMAIN events, s \in SnapIds : MarkersOn(l[1], l[2], s) <= 1)
    /\ [][\A p \in Procs, s \in SnapIds :
             Started(State, p, s) =>
                 /\ Started(State', p, s)
                 /\ Seen(p, s) \subseteq Seen(p, s)'
                 /\ PushesNoMarker(p, s)]_vars

\* snapshot 1 was started from outside on two servers, and a marker of it
\* waits on a link to a server that has already started it
C20_Witness ==
    \E p \in Procs, d \in Procs :
        /\ <<p, d>> \in DOMAIN events
        /\ CountOf(events[<<p, d>>], MarkerMessage(1)) = 1
        /\ Started(State, d, 1)
        /\ p \notin Seen(d, 1)
        /\ Seen(p, 1) = {}
        /\ Seen(d, 1) = {}

====
